---- MODULE Spec2Model ----
(***************************************************************************)
(* Fuzzy scoring (fuzzy.go) and fuzzy ranking (item.go) of go-alfred, the  *)
(* earlier revisions of the scorer (main.go, unnamed/part_000), the        *)
(* memoised rankings SortItemsForKeyword (main.go) and FuzzySortItems      *)
(* (unnamed/part_004), the tell mode of Workflow.Run (main.go and          *)
(* alfred/main.go) and the update check (alfred/main.go).                  *)
(*                                                                         *)
(* A Go string is a sequence of bytes (0..255).  The inputs are the UTF-8  *)
(* encodings of short texts over a small alphabet of code points.  Scores  *)
(* are float64 in the code; here they are exact rationals [n, d] in lowest *)
(* terms (d > 0), so that equality of records is equality of values.       *)
(***************************************************************************)
EXTENDS Integers, Sequences, FiniteSets, Bags, TLC

VARIABLES val, test, base, score, matches, pc,
          items, query, input, idx, si, sj, spc,
          calls,
          sortItems, sorted, scoreCalls,
          commands, skip, dataKeyword, arg, keyword, prefix, err,
          tellItems, itemsCalls, ranked, cidx, wpc,
          clock, website, cacheFile, queries, invocations, upc

vars == <<val, test, base, score, matches, pc,
          items, query, input, idx, si, sj, spc,
          calls,
          sortItems, sorted, scoreCalls,
          commands, skip, dataKeyword, arg, keyword, prefix, err,
          tellItems, itemsCalls, ranked, cidx, wpc,
          clock, website, cacheFile, queries, invocations, upc>>

scorerVars == <<val, test, base, score, matches, pc>>
rankerVars == <<items, query, input, idx, si, sj, spc>>
raceVars == <<calls>>
memoVars == <<sortItems, sorted, scoreCalls>>
tellVars == <<commands, skip, dataKeyword, arg, keyword, prefix, err,
              tellItems, itemsCalls, ranked, cidx, wpc>>
updateVars == <<clock, website, cacheFile, queries, invocations, upc>>
restVars == <<raceVars, memoVars, tellVars, updateVars>>

(***************************************************************************)
(* Bounds of the model.                                                    *)
(***************************************************************************)
MaxValLen == 3
MaxTestLen == 3
MaxWideLen == 2
MaxScatterLen == 6
MaxScatterTestLen == 2
MaxInserts == 2
MaxItems == 3

(***************************************************************************)
(* Code points the inputs are built from: 'a' = 97, 'A' = 65, 'b' = 98,    *)
(* 'k' = 107, 'x' = 120, U+00DF (sharp s, bytes C3 9F) = 223, U+07C0 (NKo  *)
(* digit zero, bytes DF 80) = 1984 and U+212A (Kelvin sign, bytes E2 84 AA,*)
(* whose lower case is 'k') = 8490.                                        *)
(***************************************************************************)
AsciiAlphabet == {97, 65, 98}
WideAlphabet == {107, 223, 1984, 8490}
ScatterAlphabet == {97, 98}
InsertAlphabet == {97, 98, 120}

\* utf8.RuneError, utf8.RuneSelf, utf8.MaxRune.
RuneError == 65533
RuneSelf == 128
MaxRune == 1114111

Max(a, b) == IF a >= b THEN a ELSE b

(***************************************************************************)
(* unicode/utf8: encoding and decoding of runes.                           *)
(***************************************************************************)
ValidRune(r) ==
    \/ 0 <= r /\ r < 55296
    \/ 57343 < r /\ r <= MaxRune

EncodeRune(r) ==
    IF ~ValidRune(r) THEN <<239, 191, 189>>
    ELSE IF r < 128 THEN <<r>>
    ELSE IF r < 2048 THEN <<192 + (r \div 64), 128 + (r % 64)>>
    ELSE IF r < 65536
         THEN <<224 + (r \div 4096), 128 + ((r \div 64) % 64), 128 + (r % 64)>>
    ELSE <<240 + (r \div 262144), 128 + ((r \div 4096) % 64),
           128 + ((r \div 64) % 64), 128 + (r % 64)>>

IsCont(b) == 128 <= b /\ b <= 191

\* utf8.DecodeRuneInString(s[i:]) for a 1-based position i <= Len(s):
\* the rune and its width in bytes; an invalid byte is RuneError of width 1.
DecodeRuneAt(s, i) ==
    LET n  == Len(s) - i + 1
        b0 == s[i]
        bad == [r |-> RuneError, w |-> 1]
    IN  IF b0 < 128 THEN [r |-> b0, w |-> 1]
        ELSE IF 194 <= b0 /\ b0 <= 223
             THEN IF n >= 2 /\ IsCont(s[i+1])
                  THEN [r |-> (b0 - 192) * 64 + (s[i+1] - 128), w |-> 2]
                  ELSE bad
        ELSE IF 224 <= b0 /\ b0 <= 239
             THEN IF /\ n >= 3
                     /\ (IF b0 = 224 THEN 160 ELSE 128) <= s[i+1]
                     /\ s[i+1] <= (IF b0 = 237 THEN 159 ELSE 191)
                     /\ IsCont(s[i+2])
                  THEN [r |-> (b0 - 224) * 4096 + (s[i+1] - 128) * 64
                              + (s[i+2] - 128), w |-> 3]
                  ELSE bad
        ELSE IF 240 <= b0 /\ b0 <= 244
             THEN IF /\ n >= 4
                     /\ (IF b0 = 240 THEN 144 ELSE 128) <= s[i+1]
                     /\ s[i+1] <= (IF b0 = 244 THEN 143 ELSE 191)
                     /\ IsCont(s[i+2])
                     /\ IsCont(s[i+3])
                  THEN [r |-> (b0 - 240) * 262144 + (s[i+1] - 128) * 4096
                              + (s[i+2] - 128) * 64 + (s[i+3] - 128), w |-> 4]
                  ELSE bad
        ELSE bad

\* The runes a "for _, c := range s" loop yields, in order.
RECURSIVE RangeFrom(_, _)
RangeFrom(s, i) ==
    IF i > Len(s) THEN <<>>
    ELSE LET d == DecodeRuneAt(s, i)
         IN  <<d.r>> \o RangeFrom(s, i + d.w)

RangeRunes(s) == RangeFrom(s, 1)

RECURSIVE Encode(_)
Encode(rs) ==
    IF rs = <<>> THEN <<>> ELSE EncodeRune(Head(rs)) \o Encode(Tail(rs))

(***************************************************************************)
(* unicode.ToLower and strings.ToLower, for the code points of the model   *)
(* (ASCII, Latin-1, the Kelvin sign, and the alphabet's other code points, *)
(* which have no lower-case mapping).                                      *)
(***************************************************************************)
ToLowerRuneIdentity(r) == r

ToLowerRune(r) ==
    IF 65 <= r /\ r <= 90 THEN r + 32
    ELSE IF 192 <= r /\ r <= 222 /\ r # 215 THEN r + 32
    ELSE IF r = 8490 THEN 107
    ELSE r

ToLower(s) ==
    LET rs == RangeRunes(s)
    IN  Encode([k \in 1..Len(rs) |-> ToLowerRune(rs[k])])

(***************************************************************************)
(* strings.Index, strings.IndexByte, strings.IndexRune: 0-based index of   *)
(* the first occurrence, -1 if there is none.                              *)
(***************************************************************************)
Index(s, sub) ==
    LET hits == {k \in 0..(Len(s) - Len(sub)) :
                    SubSeq(s, k + 1, k + Len(sub)) = sub}
    IN  IF hits = {} THEN -1
        ELSE CHOOSE k \in hits : \A h \in hits : k <= h

RECURSIVE IndexErrorFrom(_, _)
IndexErrorFrom(s, i) ==
    IF i > Len(s) THEN -1
    ELSE LET d == DecodeRuneAt(s, i)
         IN  IF d.r = RuneError THEN i - 1
             ELSE IndexErrorFrom(s, i + d.w)

IndexRune(s, r) ==
    IF 0 <= r /\ r < RuneSelf THEN Index(s, <<r>>)
    ELSE IF r = RuneError THEN IndexErrorFrom(s, 1)
    ELSE IF ~ValidRune(r) THEN -1
    ELSE Index(s, EncodeRune(r))

\* s[k:] for a 0-based k.
SliceFrom(s, k) == SubSeq(s, k + 1, Len(s))

(***************************************************************************)
(* Rationals.                                                              *)
(***************************************************************************)
RECURSIVE Gcd(_, _)
Gcd(a, b) == IF b = 0 THEN a ELSE Gcd(b, a % b)

Rat(n, d) ==
    LET a == IF n < 0 THEN -n ELSE n
        g == Gcd(a, d)
    IN  [n |-> n \div g, d |-> d \div g]

RatGreater(x, y) == x.n * y.d > y.n * x.d
RatGeq(x, y) == x.n * y.d >= y.n * x.d

Zero == Rat(0, 1)
NoMatch == Rat(-1, 1)

\* The result of a float64 division by zero (NaN or an infinity).
NotANumber == [n |-> 1, d |-> 0]

(***************************************************************************)
(* fuzzy.go                                                                *)
(***************************************************************************)
\* ScanRest with the search position advanced one byte too far.
RECURSIVE ScanRestSkip(_, _, _, _)
ScanRestSkip(lval, cs, start, totalSep) ==
    IF cs = <<>>
    THEN [ok |-> TRUE, inRange |-> TRUE, start |-> start, totalSep |-> totalSep]
    ELSE IF ~(0 <= start /\ start <= Len(lval))
    THEN [ok |-> FALSE, inRange |-> FALSE, start |-> start,
          totalSep |-> totalSep]
    ELSE LET i == IndexRune(SliceFrom(lval, start), Head(cs))
         IN  IF i = -1
             THEN [ok |-> FALSE, inRange |-> TRUE, start |-> start,
                   totalSep |-> totalSep]
             ELSE ScanRestSkip(lval, Tail(cs), start + i + 2, totalSep + i)

\* The loop of fuzzyScore over ltest[1:]: cs are the runes still to find,
\* start the 0-based search position, totalSep the gaps so far.  inRange is
\* false when a slice expression lval[start:] was evaluated with start
\* outside 0..len(lval), which is a run-time panic.
RECURSIVE ScanRest(_, _, _, _)
ScanRest(lval, cs, start, totalSep) ==
    IF cs = <<>>
    THEN [ok |-> TRUE, inRange |-> TRUE, start |-> start, totalSep |-> totalSep]
    ELSE IF ~(0 <= start /\ start <= Len(lval))
    THEN [ok |-> FALSE, inRange |-> FALSE, start |-> start,
          totalSep |-> totalSep]
    ELSE LET i == IndexRune(SliceFrom(lval, start), Head(cs))
         IN  IF i = -1
             THEN [ok |-> FALSE, inRange |-> TRUE, start |-> start,
                   totalSep |-> totalSep]
             ELSE ScanRest(lval, Tail(cs), start + i + 1, totalSep + i)

\* Combine with the separation score rewarding scatter (totalSep/len(test)
\* capped at 1) instead of compactness.
CombineSepInverted(start, lenLval, totalSep, lenTest, lenVal) ==
    Rat(2 * (lenLval - start) * lenTest * lenVal
          + 5 * (lenTest - Max(lenTest - totalSep, 0)) * lenLval * lenVal
          + 2 * lenTest * lenTest * lenLval,
        10 * lenLval * lenTest * lenVal)

\* 0.20*startScore + 0.5*sepScore + 0.2*matchScore as a rational.
Combine(start, lenLval, totalSep, lenTest, lenVal) ==
    IF lenLval = 0 \/ lenTest = 0 \/ lenVal = 0 THEN NotANumber
    ELSE Rat(2 * (lenLval - start) * lenTest * lenVal
               + 5 * Max(lenTest - totalSep, 0) * lenLval * lenVal
               + 2 * lenTest * lenTest * lenLval,
             10 * lenLval * lenTest * lenVal)

\* fuzzyScore with a blank test string treated as matching nothing.
fuzzyScoreBlankNoMatch(v, t) ==
    IF t = <<>> THEN NoMatch
    ELSE LET lval  == ToLower(v)
             ltest == ToLower(t)
             first == IndexRune(lval, ltest[1])
         IN  IF first = -1 THEN NoMatch
             ELSE LET scan == ScanRest(lval, RangeRunes(SliceFrom(ltest, 1)),
                                       first + 1, 0)
                  IN  IF ~scan.ok THEN NoMatch
                      ELSE Combine(first + 1, Len(lval), scan.totalSep,
                                   Len(t), Len(v))

fuzzyScore(v, t) ==
    IF t = <<>> THEN Zero
    ELSE LET lval  == ToLower(v)
             ltest == ToLower(t)
             first == IndexRune(lval, ltest[1])
         IN  IF first = -1 THEN NoMatch
             ELSE LET scan == ScanRest(lval, RangeRunes(SliceFrom(ltest, 1)),
                                       first + 1, 0)
                  IN  IF ~scan.ok THEN NoMatch
                      ELSE Combine(first + 1, Len(lval), scan.totalSep,
                                   Len(t), Len(v))

\* fuzzyScore(v, t) ends in a run-time panic: ltest[0] or ltest[1:] on an
\* empty ltest, or lval[start:] with start out of range.
fuzzyScorePanics(v, t) ==
    /\ t # <<>>
    /\ LET lval  == ToLower(v)
           ltest == ToLower(t)
       IN  \/ ltest = <<>>
           \/ LET first == IndexRune(lval, ltest[1])
              IN  /\ first # -1
                  /\ ~ScanRest(lval, RangeRunes(SliceFrom(ltest, 1)),
                               first + 1, 0).inRange

FuzzyMatches(v, t) == RatGeq(fuzzyScore(v, t), Zero)

(***************************************************************************)
(* The callers' inputs: UTF-8 texts of at most n code points over A.       *)
(***************************************************************************)
Texts(A, n) ==
    {Encode(rs) : rs \in UNION {[1..k -> A] : k \in 0..n}}

IsAsciiLetter(b) == (65 <= b /\ b <= 90) \/ (97 <= b /\ b <= 122)

AsciiOnly(s) == \A k \in 1..Len(s) : IsAsciiLetter(s[k])

SwapCase(b) == IF b >= 97 THEN b - 32 ELSE b + 32

Unset == [n |-> 0, d |-> 0]

\* The two concurrent calls of fuzzySort, neither of them made.
Calls == {1, 2}
NoCall == [pc |-> "idle", test |-> <<>>, idx |-> 0, i |-> 0, j |-> 0,
           held |-> <<>>]
RaceIdle == calls = [c \in Calls |-> NoCall]

\* FuzzySortItems not called.
MemoIdle ==
    /\ sortItems = <<>>
    /\ sorted = <<>>
    /\ scoreCalls = <<>>

\* Workflow.Run not called.
TellIdle ==
    /\ commands = <<>>
    /\ skip = {}
    /\ dataKeyword = <<>>
    /\ arg = <<>>
    /\ keyword = <<>>
    /\ prefix = <<>>
    /\ err = FALSE
    /\ tellItems = <<>>
    /\ itemsCalls = <<>>
    /\ ranked = FALSE
    /\ cidx = 0
    /\ wpc = "idle"

\* The zero time.Time, and a time of the clock (in hours).
ZeroTime == [set |-> FALSE, at |-> 0]
TimeAt(h) == [set |-> TRUE, at |-> h]

\* The zero value of the package variable cache.
ZeroCache == [LastUpdateCheck |-> ZeroTime, newer |-> FALSE]

\* updateAvailable not called; no cache file.
UpdateIdle ==
    /\ clock = 0
    /\ website = <<>>
    /\ cacheFile = [exists |-> FALSE, cache |-> ZeroCache]
    /\ queries = <<>>
    /\ invocations = 0
    /\ upc = "idle"

RestIdle == RaceIdle /\ MemoIdle /\ TellIdle /\ UpdateIdle

RankerIdle ==
    /\ items = <<>>
    /\ query = <<>>
    /\ input = <<>>
    /\ idx = 0
    /\ si = 0
    /\ sj = 0
    /\ spc = "idle"

(***************************************************************************)
(* The scorer: one call of fuzzyScore or FuzzyMatches on (val, test), and  *)
(* further calls of fuzzyScore after the caller changed the case of one    *)
(* letter of an argument.  base is not used here.                          *)
(***************************************************************************)
InitScore ==
    /\ \/ /\ val \in Texts(AsciiAlphabet, MaxValLen)
          /\ test \in Texts(AsciiAlphabet, MaxTestLen)
       \/ /\ val \in Texts(WideAlphabet, MaxWideLen)
          /\ test \in Texts(WideAlphabet, MaxWideLen)
    /\ base = <<>>
    /\ score = Unset
    /\ matches = FALSE
    /\ pc = "ready"
    /\ RankerIdle
    /\ RestIdle

CallFuzzyScore ==
    /\ pc = "ready"
    /\ IF fuzzyScorePanics(val, test)
       THEN score' = Unset /\ pc' = "panic"
       ELSE score' = fuzzyScore(val, test) /\ pc' = "scored"
    /\ UNCHANGED <<val, test, base, matches>>
    /\ UNCHANGED <<rankerVars, restVars>>

CallFuzzyMatches ==
    /\ pc = "ready"
    /\ IF fuzzyScorePanics(val, test)
       THEN score' = Unset /\ matches' = FALSE /\ pc' = "panic"
       ELSE /\ score' = fuzzyScore(val, test)
            /\ matches' = FuzzyMatches(val, test)
            /\ pc' = "matched"
    /\ UNCHANGED <<val, test, base>>
    /\ UNCHANGED <<rankerVars, restVars>>

RecaseVal ==
    /\ pc \in {"scored", "recased"}
    /\ \E k \in 1..Len(val) :
          /\ IsAsciiLetter(val[k])
          /\ val' = [val EXCEPT ![k] = SwapCase(val[k])]
    /\ IF fuzzyScorePanics(val', test)
       THEN score' = Unset /\ pc' = "panic"
       ELSE score' = fuzzyScore(val', test) /\ pc' = "recased"
    /\ UNCHANGED <<test, base, matches>>
    /\ UNCHANGED <<rankerVars, restVars>>

RecaseTest ==
    /\ pc \in {"scored", "recased"}
    /\ \E k \in 1..Len(test) :
          /\ IsAsciiLetter(test[k])
          /\ test' = [test EXCEPT ![k] = SwapCase(test[k])]
    /\ IF fuzzyScorePanics(val, test')
       THEN score' = Unset /\ pc' = "panic"
       ELSE score' = fuzzyScore(val, test') /\ pc' = "recased"
    /\ UNCHANGED <<val, base, matches>>
    /\ UNCHANGED <<rankerVars, restVars>>

(***************************************************************************)
(* Scattering a match: after a call of fuzzyScore(val, test) that matched, *)
(* the caller inserts one character that test does not contain (ignoring   *)
(* case) somewhere between the first and the last character fuzzyScore     *)
(* matched, and calls fuzzyScore again.  base keeps the first val.         *)
(***************************************************************************)
\* 0-based positions in lval of the first and the last character matched by
\* fuzzyScore(v, t), for a non-empty t that matches.
MatchedSpan(v, t) ==
    LET lval  == ToLower(v)
        ltest == ToLower(t)
        first == IndexRune(lval, ltest[1])
        scan  == ScanRest(lval, RangeRunes(SliceFrom(ltest, 1)), first + 1, 0)
    IN  [first |-> first, last |-> scan.start - 1]

InsertAt(s, p, b) == SubSeq(s, 1, p) \o <<b>> \o SliceFrom(s, p)

ScatterTests == Texts(ScatterAlphabet, MaxScatterTestLen) \ {<<>>}

InitScatter ==
    /\ base \in Texts(ScatterAlphabet, MaxScatterLen)
    /\ val = base
    /\ test \in ScatterTests
    /\ score = Unset
    /\ matches = FALSE
    /\ pc = "ready"
    /\ RankerIdle
    /\ RestIdle

InsertBetween ==
    /\ pc \in {"scored", "scattered"}
    /\ score # NoMatch
    /\ Len(val) - Len(base) < MaxInserts
    /\ LET span == MatchedSpan(val, test)
       IN  \E p \in (span.first + 1)..span.last, b \in InsertAlphabet :
             /\ \A k \in 1..Len(test) : ToLowerRune(test[k]) # ToLowerRune(b)
             /\ val' = InsertAt(val, p, b)
    /\ IF fuzzyScorePanics(val', test)
       THEN score' = Unset /\ pc' = "panic"
       ELSE score' = fuzzyScore(val', test) /\ pc' = "scattered"
    /\ UNCHANGED <<test, base, matches>>
    /\ UNCHANGED <<rankerVars, restVars>>

NextScatter ==
    \/ CallFuzzyScore
    \/ InsertBetween

SpecScatter == InitScatter /\ [][NextScatter]_vars

NextScore ==
    \/ CallFuzzyScore
    \/ CallFuzzyMatches
    \/ RecaseVal
    \/ RecaseTest

SpecScore == InitScore /\ [][NextScore]_vars

(***************************************************************************)
(* item.go: byFuzzyScore and Items.fuzzySort.                              *)
(*                                                                         *)
(* An Item is [Title, UID, fuzzyScore, ord]: UID stands for the fields the *)
(* sort never reads, fuzzyScore is the unexported field, and ord is the    *)
(* position the item had when fuzzySort was called (history only).         *)
(* Positions i, j of Len, Swap and Less are 0-based as in the code.        *)
(***************************************************************************)
ByLen(b) == Len(b)

\* Swap that copies b[j] over b[i] and loses b[i].
SwapOverwrite(b, i, j) == [b EXCEPT ![i + 1] = b[j + 1]]

Swap(b, i, j) == [b EXCEPT ![i + 1] = b[j + 1], ![j + 1] = b[i + 1]]

\* Less with >= for >.
LessOrEqual(b, i, j) == RatGeq(b[i + 1].fuzzyScore, b[j + 1].fuzzyScore)

\* Less with the comparison turned around.
LessAscending(b, i, j) == RatGreater(b[j + 1].fuzzyScore, b[i + 1].fuzzyScore)

Less(b, i, j) == RatGreater(b[i + 1].fuzzyScore, b[j + 1].fuzzyScore)

\* "for idx := range i" with the bound off by one.
RangeContinuesPastEnd(k, n) == k <= n

\* "for idx := range i": the loop body runs for idx = k.
RangeContinues(k, n) == k < n

Visible(it) == [Title |-> it.Title, UID |-> it.UID]

VisibleItems(b) == [k \in 1..Len(b) |-> Visible(b[k])]

\* The Titles "ab", "Ab", "axb", "b" and the queries "", "ab", "b".
RankTitles == { <<97, 98>>, <<65, 98>>, <<97, 120, 98>>, <<98>> }

RankUIDs == {"u1", "u2"}

RankQueries == { <<>>, <<97, 98>>, <<98>> }

NewItems ==
    UNION { [1..n -> [Title : RankTitles, UID : RankUIDs]] : n \in 0..MaxItems }

\* The list with the Titles "xyz", "axybz", "abc".
ExampleItems ==
    << [Title |-> <<120, 121, 122>>, UID |-> "u1"],
       [Title |-> <<97, 120, 121, 98, 122>>, UID |-> "u1"],
       [Title |-> <<97, 98, 99>>, UID |-> "u1"] >>

ScorerIdle ==
    /\ val = <<>>
    /\ test = <<>>
    /\ base = <<>>
    /\ score = Unset
    /\ matches = FALSE
    /\ pc = "ready"

InitRank ==
    /\ \E its \in NewItems \cup {ExampleItems} :
          items = [k \in 1..Len(its) |->
                      [Title |-> its[k].Title, UID |-> its[k].UID,
                       fuzzyScore |-> Zero, ord |-> k]]
    /\ query = <<>>
    /\ input = VisibleItems(items)
    /\ idx = 0
    /\ si = 0
    /\ sj = 0
    /\ spc = "idle"
    /\ ScorerIdle
    /\ RestIdle

\* i.fuzzySort(q) is called on the list as it stands.
CallFuzzySort ==
    /\ spc \in {"idle", "done"}
    /\ \E q \in RankQueries : query' = q
    /\ items' = [k \in 1..Len(items) |-> [items[k] EXCEPT !.ord = k]]
    /\ input' = VisibleItems(items)
    /\ idx' = 0
    /\ spc' = "scoring"
    /\ UNCHANGED <<si, sj>>
    /\ UNCHANGED <<scorerVars, restVars>>

\* One iteration of the loop of fuzzySort; an index outside the slice is a
\* run-time panic.
ScoreItem ==
    /\ spc = "scoring"
    /\ RangeContinues(idx, Len(items))
    /\ IF /\ idx + 1 \in DOMAIN items
          /\ ~fuzzyScorePanics(items[idx + 1].Title, query)
       THEN /\ items' = [items EXCEPT ![idx + 1].fuzzyScore =
                            fuzzyScore(items[idx + 1].Title, query)]
            /\ idx' = idx + 1
            /\ spc' = "scoring"
       ELSE /\ spc' = "panic"
            /\ UNCHANGED <<items, idx>>
    /\ UNCHANGED <<query, input, si, sj>>
    /\ UNCHANGED <<scorerVars, restVars>>

\* sort.Stable(byFuzzyScore(i)): for fewer than 20 elements it is
\* insertionSort(data, 0, n), which starts with i = 1, j = i.
StartSort ==
    /\ spc = "scoring"
    /\ ~RangeContinues(idx, Len(items))
    /\ si' = 1
    /\ sj' = 1
    /\ spc' = "sorting"
    /\ UNCHANGED <<items, query, input, idx>>
    /\ UNCHANGED <<scorerVars, restVars>>

\* Inner loop of insertionSort: j > a && data.Less(j, j-1), then
\* data.Swap(j, j-1) and j--.
SortSwap ==
    /\ spc = "sorting"
    /\ si < ByLen(items)
    /\ sj > 0
    /\ Less(items, sj, sj - 1)
    /\ items' = Swap(items, sj, sj - 1)
    /\ sj' = sj - 1
    /\ UNCHANGED <<query, input, idx, si, spc>>
    /\ UNCHANGED <<scorerVars, restVars>>

\* The inner loop ends: i++ and j = i.
SortAdvance ==
    /\ spc = "sorting"
    /\ si < ByLen(items)
    /\ ~(sj > 0 /\ Less(items, sj, sj - 1))
    /\ si' = si + 1
    /\ sj' = si + 1
    /\ UNCHANGED <<items, query, input, idx, spc>>
    /\ UNCHANGED <<scorerVars, restVars>>

\* The outer loop ends and fuzzySort returns.
SortReturn ==
    /\ spc = "sorting"
    /\ ~(si < ByLen(items))
    /\ spc' = "done"
    /\ UNCHANGED <<items, query, input, idx, si, sj>>
    /\ UNCHANGED <<scorerVars, restVars>>

NextRank ==
    \/ CallFuzzySort
    \/ ScoreItem
    \/ StartSort
    \/ SortSwap
    \/ SortAdvance
    \/ SortReturn

SpecRank == InitRank /\ [][NextRank]_vars

\* A call of fuzzySort that has left its scoring loop keeps running: the
\* exit of the loop and every step of the sort are taken when they can be.
\* Nothing is assumed of the body of the scoring loop.
SpecRankFair ==
    /\ SpecRank
    /\ WF_vars(StartSort)
    /\ WF_vars(SortSwap)
    /\ WF_vars(SortAdvance)
    /\ WF_vars(SortReturn)

(***************************************************************************)
(* The revision with a lazily memoised comparator (FuzzySortItems): the    *)
(* caller's items are wrapped in sortItems, whose score is computed by the *)
(* first Less that looks at them.  A *Item is the index of the item in the *)
(* caller's slice.  scoreCalls counts, for every item, the calls of        *)
(* FuzzyScore made for it.  FuzzyScore of this revision is line for line   *)
(* fuzzyScore of fuzzy.go.                                                 *)
(***************************************************************************)
MaxSortItems == 3

FuzzyScore(v, t) == fuzzyScore(v, t)

\* Less that scores its operands whether or not they are scored already.
SortItemScoreAlways(st, k) ==
    [b |-> [st.b EXCEPT ![k + 1].score =
                            FuzzyScore(items[st.b[k + 1].item].Title,
                                       st.b[k + 1].test),
                        ![k + 1].scored = TRUE],
     n |-> [st.n EXCEPT ![st.b[k + 1].item] = @ + 1]]

\* if !b[k].scored { b[k].score = FuzzyScore(...); b[k].scored = true }
SortItemScore(st, k) ==
    IF ~st.b[k + 1].scored
    THEN [b |-> [st.b EXCEPT ![k + 1].score =
                                 FuzzyScore(items[st.b[k + 1].item].Title,
                                            st.b[k + 1].test),
                             ![k + 1].scored = TRUE],
          n |-> [st.n EXCEPT ![st.b[k + 1].item] = @ + 1]]
    ELSE st

\* The slice and the call counts after Less(i, j) has run.
SortItemLessScored(b, n, i, j) ==
    SortItemScore(SortItemScore([b |-> b, n |-> n], i), j)

\* return b[i].score > b[j].score
SortItemLess(b, i, j) == RatGreater(b[i + 1].score, b[j + 1].score)

SortItemSwap(b, i, j) == [b EXCEPT ![i + 1] = b[j + 1], ![j + 1] = b[i + 1]]

InitMemo ==
    /\ \E n \in 0..MaxSortItems : \E ts \in [1..n -> RankTitles] :
          items = [k \in 1..n |-> [Title |-> ts[k], UID |-> "u1"]]
    /\ input = items
    /\ query = <<>>
    /\ idx = 0
    /\ si = 0
    /\ sj = 0
    /\ spc = "idle"
    /\ ScorerIdle
    /\ RaceIdle
    /\ MemoIdle
    /\ TellIdle
    /\ UpdateIdle

MemoUnchanged ==
    UNCHANGED <<items, input, idx, scorerVars, raceVars, tellVars,
                updateVars>>

\* FuzzySortItems(items, test) up to the call of sort.Stable, which for
\* fewer than 20 elements is insertionSort(data, 0, n).
CallFuzzySortItems ==
    /\ spc = "idle"
    /\ \E t \in RankQueries :
          /\ query' = t
          /\ sortItems' = [k \in 1..Len(items) |->
                              [item |-> k, score |-> Zero, scored |-> FALSE,
                               test |-> t]]
    /\ scoreCalls' = [k \in 1..Len(items) |-> 0]
    /\ sorted' = <<>>
    /\ si' = 1
    /\ sj' = 1
    /\ spc' = "sorting"
    /\ MemoUnchanged

\* Inner loop of insertionSort: j > a && data.Less(j, j-1), then
\* data.Swap(j, j-1) and j--.
MemoSortSwap ==
    /\ spc = "sorting"
    /\ si < Len(sortItems)
    /\ sj > 0
    /\ LET st == SortItemLessScored(sortItems, scoreCalls, sj, sj - 1)
       IN  /\ SortItemLess(st.b, sj, sj - 1)
           /\ sortItems' = SortItemSwap(st.b, sj, sj - 1)
           /\ scoreCalls' = st.n
    /\ sj' = sj - 1
    /\ UNCHANGED <<query, sorted, si, spc>>
    /\ MemoUnchanged

\* The inner loop ends, with j = a or with Less(j, j-1) false: i++, j = i.
MemoSortAdvance ==
    /\ spc = "sorting"
    /\ si < Len(sortItems)
    /\ IF sj > 0
       THEN LET st == SortItemLessScored(sortItems, scoreCalls, sj, sj - 1)
            IN  /\ ~SortItemLess(st.b, sj, sj - 1)
                /\ sortItems' = st.b
                /\ scoreCalls' = st.n
       ELSE UNCHANGED <<sortItems, scoreCalls>>
    /\ si' = si + 1
    /\ sj' = si + 1
    /\ UNCHANGED <<query, sorted, spc>>
    /\ MemoUnchanged

\* The caller's slice after a sort that put the items back in place.
CallerItemsSortedInPlace(its, b) == [k \in 1..Len(b) |-> its[b[k].item]]

\* The caller's slice after FuzzySortItems: the loop over sortItems appends
\* to the result sorted and assigns nothing to items or to an Item.
CallerItems(its, b) == its

\* The sort returns; the items are copied out in order.
MemoSortReturn ==
    /\ spc = "sorting"
    /\ ~(si < Len(sortItems))
    /\ sorted' = [k \in 1..Len(sortItems) |-> sortItems[k].item]
    /\ items' = CallerItems(items, sortItems)
    /\ spc' = "done"
    /\ UNCHANGED <<query, sortItems, scoreCalls, si, sj>>
    /\ UNCHANGED <<input, idx, scorerVars, raceVars, tellVars, updateVars>>

NextMemo ==
    \/ CallFuzzySortItems
    \/ MemoSortSwap
    \/ MemoSortAdvance
    \/ MemoSortReturn

SpecMemo == InitMemo /\ [][NextMemo]_vars

(***************************************************************************)
(* Workflow.Run in mode "tell" (alfred/main.go, the revision that passes   *)
(* JSON workflow data).  A command is its CommandDef (Keyword, IsEnabled,  *)
(* hasArg for Arg != nil) and isFilter, whether it implements Filter.      *)
(* dataKeyword is data.Keyword as decoded from the command line and arg    *)
(* the argument.  itemsCalls lists the commands whose Items was called.    *)
(* An item records what it was made for (kind) and from which command.     *)
(* SplitCmd and FuzzySort are not part of the sources at hand: SplitCmd    *)
(* cuts its argument at the first space and FuzzySort is the stable        *)
(* ranking by descending score of the Title.                               *)
(***************************************************************************)
MaxCommands == 2

\* The keywords "ab" and "b"; the arguments "", "ab", "b" and "b x".
TellKeywords == { <<97, 98>>, <<98>> }
TellArgs == { <<>>, <<97, 98>>, <<98>>, <<98, 32, 120>> }

CommandDefs ==
    [Keyword : TellKeywords, IsEnabled : BOOLEAN, hasArg : BOOLEAN,
     isFilter : BOOLEAN]

\* strings.Trim(s, " ")
RECURSIVE TrimLeft(_)
TrimLeft(s) == IF s # <<>> /\ Head(s) = 32 THEN TrimLeft(Tail(s)) ELSE s

RECURSIVE TrimRight(_)
TrimRight(s) ==
    IF s # <<>> /\ s[Len(s)] = 32
    THEN TrimRight(SubSeq(s, 1, Len(s) - 1)) ELSE s

Trim(s) == TrimRight(TrimLeft(s))

\* SplitCmd(arg): the first word and what follows it.
SplitCmd(s) ==
    LET at == Index(s, <<32>>)
    IN  IF at = -1 THEN [cmd |-> s, rest |-> <<>>]
        ELSE [cmd |-> SubSeq(s, 1, at),
              rest |-> TrimLeft(SubSeq(s, at + 2, Len(s)))]

\* FuzzySort(items, test): x is put behind the items that score at least as
\* well as it does.
RECURSIVE InsertRanked(_, _, _)
InsertRanked(x, done, t) ==
    IF done = <<>> THEN <<x>>
    ELSE IF RatGreater(fuzzyScore(x.Title, t), fuzzyScore(Head(done).Title, t))
    THEN <<x>> \o done
    ELSE <<Head(done)>> \o InsertRanked(x, Tail(done), t)

RECURSIVE RankFrom(_, _, _)
RankFrom(its, done, t) ==
    IF its = <<>> THEN done
    ELSE RankFrom(Tail(its), InsertRanked(Head(its), done, t), t)

FuzzySort(its, t) == RankFrom(its, <<>>, t)

InitTell ==
    /\ \E n \in 0..MaxCommands : commands \in [1..n -> CommandDefs]
    /\ skip = {}
    /\ dataKeyword \in {<<>>} \cup TellKeywords
    /\ arg \in TellArgs
    /\ keyword = <<>>
    /\ prefix = <<>>
    /\ err = FALSE
    /\ tellItems = <<>>
    /\ itemsCalls = <<>>
    /\ ranked = FALSE
    /\ cidx = 0
    /\ wpc = "start"
    /\ ScorerIdle
    /\ RankerIdle
    /\ RaceIdle
    /\ MemoIdle
    /\ UpdateIdle

TellUnchanged ==
    UNCHANGED <<scorerVars, rankerVars, raceVars, memoVars, updateVars>>

\* keyword = data.Keyword; without one it is parsed out of the argument.
RunParse ==
    /\ wpc = "start"
    /\ IF dataKeyword = <<>>
       THEN LET sc == SplitCmd(arg)
            IN  /\ keyword' = sc.cmd
                /\ prefix' = IF Len(arg) > Len(sc.cmd)
                             THEN sc.cmd \o <<32>> ELSE sc.cmd
                /\ arg' = sc.rest
       ELSE /\ keyword' = dataKeyword
            /\ arg' = Trim(arg)
            /\ UNCHANGED prefix
    /\ wpc' = "tell"
    /\ UNCHANGED <<commands, skip, dataKeyword, err, tellItems, itemsCalls,
                   ranked, cidx>>
    /\ TellUnchanged

\* The command gets a keyword menu item whatever the Arg of an Action.
WantsMenuItemAnyArg(def, kw) == FuzzyMatches(def.Keyword, kw)

\* FuzzyMatches(def.Keyword, keyword), and the command is a Filter or has
\* an Arg.
WantsMenuItem(def, kw) ==
    /\ FuzzyMatches(def.Keyword, kw)
    /\ (def.isFilter \/ def.hasArg)

\* c.(Filter) succeeds and def.Keyword == data.Keyword
WantsItems(def, dk) == def.isFilter /\ def.Keyword = dk

\* One iteration of "for _, c := range commands".  A call of Items returns
\* an error or one item.
TellCommand ==
    /\ wpc = "tell"
    /\ cidx < Len(commands)
    /\ cidx' = cidx + 1
    /\ LET k   == cidx + 1
           def == commands[k]
       IN  IF ~def.IsEnabled
           THEN UNCHANGED <<err, tellItems, itemsCalls>>
           ELSE IF dataKeyword # <<>>
           THEN IF WantsItems(def, dataKeyword)
                THEN /\ itemsCalls' = Append(itemsCalls, k)
                     /\ \E failed \in BOOLEAN :
                           /\ err' = failed
                           /\ tellItems' =
                                 IF failed THEN tellItems
                                 ELSE Append(tellItems,
                                             [kind |-> "result",
                                              Title |-> def.Keyword,
                                              cmd |-> k])
                ELSE UNCHANGED <<err, tellItems, itemsCalls>>
           ELSE IF WantsMenuItem(def, keyword)
           THEN /\ tellItems' = Append(tellItems,
                                       [kind |-> "menu",
                                        Title |-> def.Keyword, cmd |-> k])
                /\ UNCHANGED <<err, itemsCalls>>
           ELSE UNCHANGED <<err, tellItems, itemsCalls>>
    /\ UNCHANGED <<commands, skip, dataKeyword, arg, keyword, prefix, ranked,
                   wpc>>
    /\ TellUnchanged

\* arg == "" && keyword == ""
ShouldSort(a, kw) == a = <<>> /\ kw = <<>>

\* After the loop: FuzzySort(items, keyword) under err == nil and ShouldSort.
TellSort ==
    /\ wpc = "tell"
    /\ cidx = Len(commands)
    /\ IF ~err /\ ShouldSort(arg, keyword)
       THEN /\ tellItems' = FuzzySort(tellItems, keyword)
            /\ ranked' = TRUE
       ELSE UNCHANGED <<tellItems, ranked>>
    /\ wpc' = "sorted"
    /\ UNCHANGED <<commands, skip, dataKeyword, arg, keyword, prefix, err,
                   itemsCalls, cidx>>
    /\ TellUnchanged

\* The error or "No results" item, AddUpdateItem (an update is available or
\* not) and SendToAlfred.
TellSend ==
    /\ wpc = "sorted"
    /\ \E available \in BOOLEAN :
          LET closed ==
                  IF err
                  THEN Append(tellItems, [kind |-> "error", Title |-> <<>>,
                                          cmd |-> 0])
                  ELSE IF Len(tellItems) = 0
                  THEN <<[kind |-> "none", Title |-> <<>>, cmd |-> 0]>>
                  ELSE tellItems
          IN  tellItems' =
                  IF available
                  THEN <<[kind |-> "update", Title |-> <<>>, cmd |-> 0]>>
                           \o closed
                  ELSE closed
    /\ wpc' = "sent"
    /\ UNCHANGED <<commands, skip, dataKeyword, arg, keyword, prefix, err,
                   itemsCalls, ranked, cidx>>
    /\ TellUnchanged

NextTell ==
    \/ RunParse
    \/ TellCommand
    \/ TellSort
    \/ TellSend

SpecTell == InitTell /\ [][NextTell]_vars

(***************************************************************************)
(* Workflow.updateAvailable (alfred/main.go).  Every invocation of the     *)
(* workflow is a new process: the package variable cache starts as its     *)
(* zero value and is loaded from workflow_cache.json when the file can be  *)
(* read.  clock is the time in hours; queries lists the times at which     *)
(* getReleases was called and whether it succeeded.                        *)
(***************************************************************************)
MaxHours == 36
MaxInvocations == 3

\* "https://github.com/o/r", "https://gitlab.com/o/r" and "".
Websites ==
    { <<104, 116, 116, 112, 115, 58, 47, 47, 103, 105, 116, 104, 117, 98, 46,
        99, 111, 109, 47, 111, 47, 114>>,
      <<104, 116, 116, 112, 115, 58, 47, 47, 103, 105, 116, 108, 97, 98, 46,
        99, 111, 109, 47, 111, 47, 114>>,
      <<>> }

\* "github.com"
GitHubHost == <<103, 105, 116, 104, 117, 98, 46, 99, 111, 109>>

\* strings.Split(s, "/")
RECURSIVE Split(_, _)
Split(s, sep) ==
    LET at == Index(s, sep)
    IN  IF at = -1 THEN <<s>>
        ELSE <<SubSeq(s, 1, at)>> \o Split(SubSeq(s, at + 2, Len(s)), sep)

\* s >= t for Go strings (bytewise lexicographic order).
RECURSIVE StringGeq(_, _)
StringGeq(s, t) ==
    IF t = <<>> THEN TRUE
    ELSE IF s = <<>> THEN FALSE
    ELSE IF Head(s) # Head(t) THEN Head(s) > Head(t)
    ELSE StringGeq(Tail(s), Tail(t))

\* sort.StringSlice.Search(x): the binary search of sort.Search over
\* [i, j), which takes the slice to be sorted.
RECURSIVE SearchFrom(_, _, _, _)
SearchFrom(parts, x, i, j) ==
    IF ~(i < j) THEN i
    ELSE LET h == (i + j) \div 2
         IN  IF ~StringGeq(parts[h + 1], x)
             THEN SearchFrom(parts, x, h + 1, j)
             ELSE SearchFrom(parts, x, i, h)

Search(parts, x) == SearchFrom(parts, x, 0, Len(parts))

\* time.Now().Sub(t).Hours() >= 24.0; the zero time is centuries back.
DayPassed(now, t) == ~t.set \/ now - t.at >= 24

\* checkNow || time.Now().Sub(cache.LastUpdateCheck).Hours() >= 24.0
Due(checkNow, now, t) == checkNow \/ DayPassed(now, t)

InitUpdate ==
    /\ clock = 0
    /\ website \in Websites
    /\ cacheFile = [exists |-> FALSE, cache |-> ZeroCache]
    /\ queries = <<>>
    /\ invocations = 0
    /\ upc = "idle"
    /\ ScorerIdle
    /\ RankerIdle
    /\ RaceIdle
    /\ MemoIdle
    /\ TellIdle

UpdateUnchanged ==
    UNCHANGED <<scorerVars, rankerVars, raceVars, memoVars, tellVars>>

\* Time passes between two invocations, half a day at a time.
ClockTick ==
    /\ clock + 12 <= MaxHours
    /\ clock' = clock + 12
    /\ upc' = "idle"
    /\ UNCHANGED <<website, cacheFile, queries, invocations>>
    /\ UpdateUnchanged

\* One invocation calls w.updateAvailable(checkNow).  getReleases and
\* SaveJSON succeed or fail; a release is newer than the workflow or not.
updateAvailable(checkNow) ==
    /\ invocations < MaxInvocations
    /\ invocations' = invocations + 1
    /\ LET cache == IF cacheFile.exists THEN cacheFile.cache ELSE ZeroCache
       IN  IF Due(checkNow, clock, cache.LastUpdateCheck)
           THEN LET parts == Split(website, <<47>>)
                    i     == Search(parts, GitHubHost)
                IN  IF i = -1
                    THEN /\ upc' = "returned"
                         /\ UNCHANGED <<cacheFile, queries>>
                    ELSE IF i + 3 > Len(parts)
                    THEN /\ upc' = "panic"
                         /\ UNCHANGED <<cacheFile, queries>>
                    ELSE \E queryOK, saveOK, newer \in BOOLEAN :
                            /\ queries' = Append(queries,
                                                 [at |-> clock, ok |-> queryOK,
                                                  now |-> checkNow])
                            /\ cacheFile' =
                                  IF queryOK /\ saveOK
                                  THEN [exists |-> TRUE,
                                        cache |-> [LastUpdateCheck |->
                                                       TimeAt(clock),
                                                   newer |-> newer]]
                                  ELSE cacheFile
                            /\ upc' = "returned"
           ELSE /\ upc' = "returned"
                /\ UNCHANGED <<cacheFile, queries>>
    /\ UNCHANGED <<clock, website>>
    /\ UpdateUnchanged

UpdateAvailable == updateAvailable(FALSE)

UpdateAvailableNow == updateAvailable(TRUE)

NextUpdate ==
    \/ ClockTick
    \/ UpdateAvailable
    \/ UpdateAvailableNow

SpecUpdate == InitUpdate /\ [][NextUpdate]_vars

(***************************************************************************)
(* Two earlier revisions of the scorer, called on the same (val, test):    *)
(* the one with the weights 0.40/0.40/0.20 (unnamed/part_000) and the      *)
(* first one, with exported names (main.go).  A float64 division by zero   *)
(* gives [n |-> s, d |-> 0], s the sign of the numerator: NaN for 0/0,     *)
(* +Inf and -Inf otherwise.                                                *)
(***************************************************************************)
Sign(x) == IF x > 0 THEN 1 ELSE IF x < 0 THEN -1 ELSE 0

Divide(num, den) ==
    IF den = 0 THEN [n |-> Sign(num), d |-> 0]
    ELSE IF den < 0 THEN Rat(-num, -den)
    ELSE Rat(num, den)

\* x >= 0 for a float64: false for NaN and -Inf.
GeqZero(x) == IF x.d = 0 THEN x.n > 0 ELSE RatGeq(x, Zero)

\* The loop of part_000 over ltest[1:]: every rune is searched from end on.
RECURSIVE ScanEnd_part000(_, _, _)
ScanEnd_part000(lval, cs, end) ==
    IF cs = <<>> THEN [ok |-> TRUE, end |-> end]
    ELSE LET i == IndexRune(SliceFrom(lval, end), Head(cs))
         IN  IF i = -1 THEN [ok |-> FALSE, end |-> end]
             ELSE ScanEnd_part000(lval, Tail(cs), end + i + 1)

\* 0.40*startScore + 0.4*sepScore + 0.2*matchScore
Combine_part000(start, end, lenLval, lenTest, lenVal) ==
    LET sizeDelta == lenVal - lenTest
        sepScore  == Divide((end - start) - lenTest, sizeDelta)
    IN  IF sepScore.d = 0 THEN sepScore
        ELSE Rat(4 * start * sepScore.d * lenVal
                   + 4 * sepScore.n * lenLval * lenVal
                   + 2 * (lenVal - lenTest) * lenLval * sepScore.d,
                 10 * lenLval * sepScore.d * lenVal)

fuzzyScore_part000(v, t) ==
    IF t = <<>> THEN Zero
    ELSE LET lval  == ToLower(v)
             ltest == ToLower(t)
             start == IndexRune(lval, ltest[1])
         IN  IF start = -1 THEN NoMatch
             ELSE LET scan == ScanEnd_part000(lval,
                                              RangeRunes(SliceFrom(ltest, 1)),
                                              start)
                  IN  IF ~scan.ok THEN NoMatch
                      ELSE Combine_part000(start, scan.end, Len(lval), Len(t),
                                           Len(v))

FuzzyMatches_part000(v, t) == GeqZero(fuzzyScore_part000(v, t))

\* The loop of the first revision: the search is in lval[start+1:] and
\* start moves on by i.
RECURSIVE ScanRest_main(_, _, _, _)
ScanRest_main(lval, cs, start, totalSep) ==
    IF cs = <<>> THEN [ok |-> TRUE, start |-> start, totalSep |-> totalSep]
    ELSE LET i == IndexRune(SliceFrom(lval, start + 1), Head(cs))
         IN  IF i = -1
             THEN [ok |-> FALSE, start |-> start, totalSep |-> totalSep]
             ELSE ScanRest_main(lval, Tail(cs), start + i, totalSep + i)

\* 0.20*start + 0.5*(totalSep/len(test)) + 0.2*((len(val)-len(test))/len(val))
Combine_main(start, totalSep, lenTest, lenVal) ==
    Rat(2 * start * lenTest * lenVal
          + 5 * totalSep * lenVal
          + 2 * (lenVal - lenTest) * lenTest,
        10 * lenTest * lenVal)

FuzzyScore_main(v, t) ==
    IF t = <<>> THEN Zero
    ELSE LET lval  == ToLower(v)
             ltest == ToLower(t)
             start == IndexRune(lval, ltest[1])
         IN  IF start = -1 THEN NoMatch
             ELSE LET scan == ScanRest_main(lval,
                                            RangeRunes(SliceFrom(ltest, 1)),
                                            start, 0)
                  IN  IF ~scan.ok THEN NoMatch
                      ELSE Combine_main(start, scan.totalSep, Len(t), Len(v))

FuzzyMatches_main(v, t) == GeqZero(FuzzyScore_main(v, t))

\* FuzzyMatches(val, test) of part_000.
CallFuzzyMatches_part000 ==
    /\ pc = "ready"
    /\ score' = fuzzyScore_part000(val, test)
    /\ matches' = FuzzyMatches_part000(val, test)
    /\ pc' = "matched_part000"
    /\ UNCHANGED <<val, test, base>>
    /\ UNCHANGED <<rankerVars, restVars>>

\* FuzzyMatches(val, test) of the first revision.
CallFuzzyMatches_main ==
    /\ pc = "ready"
    /\ score' = FuzzyScore_main(val, test)
    /\ matches' = FuzzyMatches_main(val, test)
    /\ pc' = "matched_main"
    /\ UNCHANGED <<val, test, base>>
    /\ UNCHANGED <<rankerVars, restVars>>

NextRevisions ==
    \/ CallFuzzyMatches_part000
    \/ CallFuzzyMatches_main

SpecRevisions == InitScore /\ [][NextRevisions]_vars

(***************************************************************************)
(* Two calls of Items.fuzzySort running interleaved on the same slice.     *)
(* items is the shared backing array; calls[c] holds the locals of call c: *)
(* its position, its test, the loop index idx, the indices i and j of      *)
(* insertionSort and the two elements Swap has loaded.  The code takes no  *)
(* lock, so every read and every write of the array is a step of its own.  *)
(***************************************************************************)
MaxRaceItems == 2

\* The Titles "ab" and "b", which the tests "ab" and "b" rank differently.
RaceTitles == { <<97, 98>>, <<98>> }
RaceTests == { <<97, 98>>, <<98>> }

InitRace ==
    /\ \E n \in 1..MaxRaceItems : \E ts \in [1..n -> RaceTitles] :
          items = [k \in 1..n |->
                      [Title |-> ts[k], UID |-> "u1",
                       fuzzyScore |-> Zero, ord |-> k]]
    /\ input = VisibleItems(items)
    /\ query = <<>>
    /\ idx = 0
    /\ si = 0
    /\ sj = 0
    /\ spc = "idle"
    /\ ScorerIdle
    /\ RaceIdle
    /\ MemoIdle
    /\ TellIdle
    /\ UpdateIdle

RaceUnchanged ==
    UNCHANGED <<query, input, idx, si, sj, spc, scorerVars, memoVars,
                tellVars, updateVars>>

\* go i.fuzzySort(t)
GoFuzzySort(c) ==
    /\ calls[c].pc = "idle"
    /\ \E t \in RaceTests :
          calls' = [calls EXCEPT ![c] = [NoCall EXCEPT !.pc = "scoring",
                                                       !.test = t]]
    /\ UNCHANGED items
    /\ RaceUnchanged

\* The right-hand side of i[idx].fuzzyScore = fuzzyScore(i[idx].Title, test):
\* reads the Title of element idx.
GoComputeScore(c) ==
    /\ calls[c].pc = "scoring"
    /\ RangeContinues(calls[c].idx, Len(items))
    /\ calls' = [calls EXCEPT
                    ![c].pc = "storing",
                    ![c].held = <<fuzzyScore(items[calls[c].idx + 1].Title,
                                             calls[c].test)>>]
    /\ UNCHANGED items
    /\ RaceUnchanged

\* The assignment to i[idx].fuzzyScore.
GoStoreScore(c) ==
    /\ calls[c].pc = "storing"
    /\ items' = [items EXCEPT ![calls[c].idx + 1].fuzzyScore = calls[c].held[1]]
    /\ calls' = [calls EXCEPT ![c].pc = "scoring", ![c].idx = @ + 1,
                              ![c].held = <<>>]
    /\ RaceUnchanged

GoStartSort(c) ==
    /\ calls[c].pc = "scoring"
    /\ ~RangeContinues(calls[c].idx, Len(items))
    /\ calls' = [calls EXCEPT ![c].pc = "sorting", ![c].i = 1, ![c].j = 1]
    /\ UNCHANGED items
    /\ RaceUnchanged

\* j > a && data.Less(j, j-1) holds: Swap(j, j-1) is entered.
GoLess(c) ==
    /\ calls[c].pc = "sorting"
    /\ calls[c].i < ByLen(items)
    /\ calls[c].j > 0
    /\ Less(items, calls[c].j, calls[c].j - 1)
    /\ calls' = [calls EXCEPT ![c].pc = "swapping"]
    /\ UNCHANGED items
    /\ RaceUnchanged

\* b[i], b[j] = b[j], b[i] with i = j and j = j-1 of insertionSort: the
\* operands on the right are read first,
GoSwapLoad(c) ==
    /\ calls[c].pc = "swapping"
    /\ calls' = [calls EXCEPT
                    ![c].pc = "storeFirst",
                    ![c].held = <<items[calls[c].j], items[calls[c].j + 1]>>]
    /\ UNCHANGED items
    /\ RaceUnchanged

\* then b[i] is assigned,
GoSwapStoreFirst(c) ==
    /\ calls[c].pc = "storeFirst"
    /\ items' = [items EXCEPT ![calls[c].j + 1] = calls[c].held[1]]
    /\ calls' = [calls EXCEPT ![c].pc = "storeSecond"]
    /\ RaceUnchanged

\* then b[j]; the inner loop goes on with j--.
GoSwapStoreSecond(c) ==
    /\ calls[c].pc = "storeSecond"
    /\ items' = [items EXCEPT ![calls[c].j] = calls[c].held[2]]
    /\ calls' = [calls EXCEPT ![c].pc = "sorting", ![c].j = @ - 1,
                              ![c].held = <<>>]
    /\ RaceUnchanged

GoSortAdvance(c) ==
    /\ calls[c].pc = "sorting"
    /\ calls[c].i < ByLen(items)
    /\ ~(calls[c].j > 0 /\ Less(items, calls[c].j, calls[c].j - 1))
    /\ calls' = [calls EXCEPT ![c].i = @ + 1, ![c].j = calls[c].i + 1]
    /\ UNCHANGED items
    /\ RaceUnchanged

GoSortReturn(c) ==
    /\ calls[c].pc = "sorting"
    /\ ~(calls[c].i < ByLen(items))
    /\ calls' = [calls EXCEPT ![c].pc = "done"]
    /\ UNCHANGED items
    /\ RaceUnchanged

NextRace ==
    \E c \in Calls :
        \/ GoFuzzySort(c)
        \/ GoComputeScore(c)
        \/ GoStoreScore(c)
        \/ GoStartSort(c)
        \/ GoLess(c)
        \/ GoSwapLoad(c)
        \/ GoSwapStoreFirst(c)
        \/ GoSwapStoreSecond(c)
        \/ GoSortAdvance(c)
        \/ GoSortReturn(c)

SpecRace == InitRace /\ [][NextRace]_vars

\* The memory locations, element k (1-based) and field f, that the next
\* step of call c reads and writes.  "Title" stands for the exported fields.
Fields == {"Title", "fuzzyScore"}
Element(k) == {<<k, f>> : f \in Fields}

ReadsOf(c) ==
    CASE calls[c].pc = "scoring" /\ RangeContinues(calls[c].idx, Len(items))
             -> {<<calls[c].idx + 1, "Title">>}
      [] calls[c].pc = "sorting" /\ calls[c].i < ByLen(items) /\ calls[c].j > 0
             -> {<<calls[c].j + 1, "fuzzyScore">>, <<calls[c].j, "fuzzyScore">>}
      [] calls[c].pc = "swapping"
             -> Element(calls[c].j + 1) \cup Element(calls[c].j)
      [] OTHER -> {}

WritesOf(c) ==
    CASE calls[c].pc = "storing" -> {<<calls[c].idx + 1, "fuzzyScore">>}
      [] calls[c].pc = "storeFirst" -> Element(calls[c].j + 1)
      [] calls[c].pc = "storeSecond" -> Element(calls[c].j)
      [] OTHER -> {}

(***************************************************************************)
(* SortItemsForKeyword of the first revision (main.go): the items are      *)
(* wrapped in sortItems with a lazily memoised score, FuzzyScore of that   *)
(* revision, and sort.Stable orders the wrappers with Less, which is       *)
(* b[i].score < b[j].score.  An *Item is the index of the item in the      *)
(* caller's slice; sorted lists the items copied out, by index.            *)
(***************************************************************************)
\* if !b[k].scored { b[k].score = FuzzyScore(...); b[k].scored = true }
SortItemScore_main(st, k) ==
    IF ~st.b[k + 1].scored
    THEN [b |-> [st.b EXCEPT ![k + 1].score =
                                 FuzzyScore_main(items[st.b[k + 1].item].Title,
                                                 st.b[k + 1].keyword),
                             ![k + 1].scored = TRUE],
          n |-> [st.n EXCEPT ![st.b[k + 1].item] = @ + 1]]
    ELSE st

SortItemLessScored_main(b, n, i, j) ==
    SortItemScore_main(SortItemScore_main([b |-> b, n |-> n], i), j)

\* return b[i].score < b[j].score
SortItemLess_main(b, i, j) == RatGreater(b[j + 1].score, b[i + 1].score)

SortItemSwap_main(b, i, j) ==
    [b EXCEPT ![i + 1] = b[j + 1], ![j + 1] = b[i + 1]]

\* SortItemsForKeyword(items, keyword) up to the call of sort.Stable, which
\* for fewer than 20 elements is insertionSort(data, 0, n).
CallSortItemsForKeyword ==
    /\ spc = "idle"
    /\ \E kw \in RankQueries :
          /\ query' = kw
          /\ sortItems' = [k \in 1..Len(items) |->
                              [item |-> k, score |-> Zero, scored |-> FALSE,
                               keyword |-> kw]]
    /\ scoreCalls' = [k \in 1..Len(items) |-> 0]
    /\ sorted' = <<>>
    /\ si' = 1
    /\ sj' = 1
    /\ spc' = "sorting"
    /\ MemoUnchanged

\* Inner loop of insertionSort: j > a && data.Less(j, j-1), then
\* data.Swap(j, j-1) and j--.
KeywordSortSwap ==
    /\ spc = "sorting"
    /\ si < Len(sortItems)
    /\ sj > 0
    /\ LET st == SortItemLessScored_main(sortItems, scoreCalls, sj, sj - 1)
       IN  /\ SortItemLess_main(st.b, sj, sj - 1)
           /\ sortItems' = SortItemSwap_main(st.b, sj, sj - 1)
           /\ scoreCalls' = st.n
    /\ sj' = sj - 1
    /\ UNCHANGED <<query, sorted, si, spc>>
    /\ MemoUnchanged

\* The inner loop ends, with j = a or with Less(j, j-1) false: i++, j = i.
KeywordSortAdvance ==
    /\ spc = "sorting"
    /\ si < Len(sortItems)
    /\ IF sj > 0
       THEN LET st == SortItemLessScored_main(sortItems, scoreCalls, sj,
                                              sj - 1)
            IN  /\ ~SortItemLess_main(st.b, sj, sj - 1)
                /\ sortItems' = st.b
                /\ scoreCalls' = st.n
       ELSE UNCHANGED <<sortItems, scoreCalls>>
    /\ si' = si + 1
    /\ sj' = si + 1
    /\ UNCHANGED <<query, sorted, spc>>
    /\ MemoUnchanged

\* The sort returns; the items are copied out in order.
KeywordSortReturn ==
    /\ spc = "sorting"
    /\ ~(si < Len(sortItems))
    /\ sorted' = [k \in 1..Len(sortItems) |-> sortItems[k].item]
    /\ spc' = "done"
    /\ UNCHANGED <<query, sortItems, scoreCalls, si, sj>>
    /\ MemoUnchanged

NextKeywordSort ==
    \/ CallSortItemsForKeyword
    \/ KeywordSortSwap
    \/ KeywordSortAdvance
    \/ KeywordSortReturn

SpecKeywordSort == InitMemo /\ [][NextKeywordSort]_vars



\* The 0-based byte positions in lval at which the loop of fuzzyScore finds
\* the runes cs, searching from start on, for a test that matches.
RECURSIVE ScanPositions(_, _, _)
ScanPositions(lval, cs, start) ==
    IF cs = <<>> THEN <<>>
    ELSE LET i == IndexRune(SliceFrom(lval, start), Head(cs))
         IN  <<start + i>> \o ScanPositions(lval, Tail(cs), start + i + 1)

\* The positions fuzzyScore(v, t) matches, for a non-empty t that matches.
MatchedPositions(v, t) ==
    LET lval  == ToLower(v)
        ltest == ToLower(t)
        first == IndexRune(lval, ltest[1])
    IN  <<first>> \o ScanPositions(lval, RangeRunes(SliceFrom(ltest, 1)),
                                   first + 1)

\* totalSep when fuzzyScore(v, t) leaves its loop, for a t that matches.
TotalSep(v, t) ==
    LET lval  == ToLower(v)
        ltest == ToLower(t)
        first == IndexRune(lval, ltest[1])
    IN  ScanRest(lval, RangeRunes(SliceFrom(ltest, 1)), first + 1, 0).totalSep

(***************************************************************************)
(* Workflow.Run in mode "tell", first revision (main.go).  A command is    *)
(* its Keyword, which may be empty, IsEnabled, and isFilter, whether it    *)
(* implements Filter.  arg is args[1], the query; skip the keywords of the *)
(* -skip flag.  A call of Items returns an error or one item; itemsCalls   *)
(* lists the calls made and whether they failed.  Commands are referred to *)
(* by their index in commands.                                             *)
(***************************************************************************)
Commands_main ==
    [Keyword : {<<>>} \cup TellKeywords, IsEnabled : BOOLEAN,
     isFilter : BOOLEAN]

\* No -skip flag, or -skip b.
SkipSets == { {}, {<<98>>} }

\* strings.SplitN(s, " ", 2)
SplitN2(s) ==
    LET at == Index(s, <<32>>)
    IN  IF at = -1 THEN <<s>>
        ELSE <<SubSeq(s, 1, at), SubSeq(s, at + 2, Len(s))>>

\* The commands with c.IsEnabled(), in order.
Active(cs) ==
    SelectSeq([k \in 1..Len(cs) |-> k], LAMBDA k : cs[k].IsEnabled)

findFilter(name, cs, act, sk) ==
    SelectSeq(act, LAMBDA k : /\ cs[k].isFilter
                              /\ name = cs[k].Keyword
                              /\ name \notin sk)

\* SortItemsForKeyword(items, keyword) as a whole: the stable sort with
\* Less = score < score puts x before the first item that scores higher.
RECURSIVE InsertForKeyword(_, _, _)
InsertForKeyword(x, done, kw) ==
    IF done = <<>> THEN <<x>>
    ELSE IF RatGreater(FuzzyScore_main(Head(done).Title, kw),
                       FuzzyScore_main(x.Title, kw))
    THEN <<x>> \o done
    ELSE <<Head(done)>> \o InsertForKeyword(x, Tail(done), kw)

RECURSIVE SortFrom_main(_, _, _)
SortFrom_main(its, done, kw) ==
    IF its = <<>> THEN done
    ELSE SortFrom_main(Tail(its), InsertForKeyword(Head(its), done, kw), kw)

SortItemsForKeyword(its, kw) == SortFrom_main(its, <<>>, kw)

InitRun_main ==
    /\ \E n \in 0..MaxCommands : commands \in [1..n -> Commands_main]
    /\ skip \in SkipSets
    /\ dataKeyword = <<>>
    /\ arg \in TellArgs
    /\ keyword = <<>>
    /\ prefix = <<>>
    /\ err = FALSE
    /\ tellItems = <<>>
    /\ itemsCalls = <<>>
    /\ ranked = FALSE
    /\ cidx = 0
    /\ wpc = "start"
    /\ ScorerIdle
    /\ RankerIdle
    /\ RaceIdle
    /\ MemoIdle
    /\ UpdateIdle

\* The first word of the query is the keyword; prefix = keyword + " " unless
\* the -hide flag is given.
RunParse_main ==
    /\ wpc = "start"
    /\ IF arg # <<>>
       THEN LET parts == SplitN2(arg)
            IN  /\ keyword' = Trim(parts[1])
                /\ arg' = IF Len(parts) > 1 THEN TrimLeft(parts[2]) ELSE <<>>
       ELSE UNCHANGED <<keyword, arg>>
    /\ \E hideKeyword \in BOOLEAN :
          prefix' = IF ~hideKeyword THEN keyword' \o <<32>> ELSE <<>>
    /\ wpc' = "emptyFilters"
    /\ UNCHANGED <<commands, skip, dataKeyword, err, tellItems, itemsCalls,
                   ranked, cidx>>
    /\ TellUnchanged

\* findFilter("", active, stringSet{})
EmptyFilters == findFilter(<<>>, commands, Active(commands), {})

\* findFilter(keyword, active, skip) under keyword != ""
KeywordFilters ==
    IF keyword # <<>>
    THEN findFilter(keyword, commands, Active(commands), skip)
    ELSE <<>>

\* cmdItems, err = f.Items(...); if err == nil the items are appended.
ItemsCalled(k) ==
    \E failed \in BOOLEAN :
        /\ err' = failed
        /\ itemsCalls' = Append(itemsCalls, [cmd |-> k, failed |-> failed])
        /\ tellItems' = IF failed THEN tellItems
                        ELSE Append(tellItems,
                                    [kind |-> "result",
                                     Title |-> commands[k].Keyword,
                                     cmd |-> k])

\* One iteration of "for _, f := range emptyFilters".
EmptyFilterItems ==
    /\ wpc = "emptyFilters"
    /\ cidx < Len(EmptyFilters)
    /\ ItemsCalled(EmptyFilters[cidx + 1])
    /\ cidx' = cidx + 1
    /\ UNCHANGED <<commands, skip, dataKeyword, arg, keyword, prefix, ranked,
                   wpc>>
    /\ TellUnchanged

\* The loop over emptyFilters ends (or there are none).
EmptyFiltersDone ==
    /\ wpc = "emptyFilters"
    /\ cidx = Len(EmptyFilters)
    /\ cidx' = 0
    /\ wpc' = "filters"
    /\ UNCHANGED <<commands, skip, dataKeyword, arg, keyword, prefix, err,
                   tellItems, itemsCalls, ranked>>
    /\ TellUnchanged

\* One iteration of "for _, f := range filters".
KeywordFilterItems ==
    /\ wpc = "filters"
    /\ cidx < Len(KeywordFilters)
    /\ ItemsCalled(KeywordFilters[cidx + 1])
    /\ cidx' = cidx + 1
    /\ UNCHANGED <<commands, skip, dataKeyword, arg, keyword, prefix, ranked,
                   wpc>>
    /\ TellUnchanged

\* The menu items of the else branch: the active Filters with a keyword
\* that FuzzyMatches the typed one and is not skipped.
MenuItems_main ==
    LET ks == SelectSeq(Active(commands),
                        LAMBDA k : /\ commands[k].isFilter
                                   /\ commands[k].Keyword # <<>>
                                   /\ FuzzyMatches_main(commands[k].Keyword,
                                                        keyword)
                                   /\ commands[k].Keyword \notin skip)
    IN  [n \in 1..Len(ks) |->
            [kind |-> "menu", Title |-> commands[ks[n]].Keyword,
             cmd |-> ks[n]]]

\* if err != nil the "Error: ..." item is appended, else if there are no
\* items the "Invalid input: ..." item.
Closed_main(its, e) ==
    IF e THEN Append(its, [kind |-> "error", Title |-> <<>>, cmd |-> 0])
    ELSE IF Len(its) = 0
    THEN Append(its, [kind |-> "invalid", Title |-> <<>>, cmd |-> 0])
    ELSE its

\* The rest of the tell case: without filters for the keyword the menu
\* items are added and everything is sorted; then the error or invalid
\* input item and SendToAlfred.
RunSend_main ==
    /\ wpc = "filters"
    /\ cidx = Len(KeywordFilters)
    /\ IF Len(KeywordFilters) > 0
       THEN /\ tellItems' = Closed_main(tellItems, err)
            /\ UNCHANGED ranked
       ELSE /\ tellItems' =
                  Closed_main(SortItemsForKeyword(tellItems \o MenuItems_main,
                                                  keyword), err)
            /\ ranked' = TRUE
    /\ wpc' = "sent"
    /\ UNCHANGED <<commands, skip, dataKeyword, arg, keyword, prefix, err,
                   itemsCalls, cidx>>
    /\ TellUnchanged

NextRun_main ==
    \/ RunParse_main
    \/ EmptyFilterItems
    \/ EmptyFiltersDone
    \/ KeywordFilterItems
    \/ RunSend_main

SpecRun_main == InitRun_main /\ [][NextRun_main]_vars

(***************************************************************************)
(* Vocabulary of the properties.                                           *)
(***************************************************************************)
CaseFold(r) ==
    IF 65 <= r /\ r <= 90 THEN r + 32
    ELSE IF 192 <= r /\ r <= 222 /\ r # 215 THEN r + 32
    ELSE IF r = 8490 THEN 107
    ELSE r

\* The characters of a text, folded to lower case.
Folded(s) ==
    LET rs == RangeRunes(s) IN [k \in 1..Len(rs) |-> CaseFold(rs[k])]

\* t is an ordered, not necessarily contiguous, subsequence of v.
IsSubseq(t, v) ==
    \E f \in [1..Len(t) -> 1..Len(v)] :
        /\ \A k \in 1..Len(t) : v[f[k]] = t[k]
        /\ \A k \in 1..(Len(t) - 1) : f[k] < f[k + 1]

IsSubseqCI(t, v) == IsSubseq(Folded(t), Folded(v))

EqualFold(s, t) == Folded(s) = Folded(t)

Called == pc \in {"scored", "matched", "recased"}

\* C1: for every val, the empty string included, fuzzyScore(val, "") is
\* exactly 0 and FuzzyMatches(val, "") is true.
C1_BlankTestScoresZero ==
    (Called /\ test = <<>>) =>
        /\ score = Zero
        /\ (pc = "matched" => matches)

C1_Witness ==
    /\ pc = "matched"
    /\ test = <<>>
    /\ val = <<>>
    /\ matches

\* C2: when the characters of a non-empty test are not a case-insensitive
\* ordered subsequence of val, fuzzyScore returns -1 and FuzzyMatches
\* returns false.
C2_NonSubsequenceNoMatch ==
    (Called /\ test # <<>> /\ ~IsSubseqCI(test, val)) =>
        /\ score = NoMatch
        /\ (pc = "matched" => ~matches)

\* C3: over single-byte characters FuzzyMatches(val, test) is true exactly
\* when test is empty or a case-insensitive ordered subsequence of val; the
\* greedy leftmost search never rejects a test that has an embedding.
C3_MatchesIffSubsequence ==
    (pc = "matched" /\ AsciiOnly(val) /\ AsciiOnly(test)) =>
        (matches <=> (test = <<>> \/ IsSubseqCI(test, val)))

C3_Witness ==
    /\ pc = "matched"
    /\ matches
    /\ AsciiOnly(val)
    /\ Len(test) = 3
    /\ Len(val) = 3
    /\ val # test
    /\ val[1] = val[2]

\* C4: for non-empty val and test that are equal ignoring case, fuzzyScore
\* is 0, the documented score of a perfect match.
C4_ExactMatchScoresZero ==
    (Called /\ test # <<>> /\ EqualFold(val, test)) => score = Zero

\* C5: over ASCII letters, changing the case of a character of val or of
\* test leaves the score unchanged.
C5_CaseInsensitive ==
    [][(pc' = "recased" /\ AsciiOnly(val) /\ AsciiOnly(test))
          => score' = score]_vars

C5_Witness ==
    /\ pc = "recased"
    /\ AsciiOnly(val)
    /\ AsciiOnly(test)
    /\ Len(test) >= 2
    /\ val # ToLower(val)
    /\ test # ToLower(test)
    /\ RatGreater(score, Zero)

\* test occurs in v as a contiguous run, ignoring case.
OccursContiguously(t, v) ==
    \E k \in 0..(Len(v) - Len(t)) :
        SubSeq(Folded(v), k + 1, k + Len(t)) = Folded(t)

\* test occurs in v as a contiguous run that begins at the first occurrence
\* of test's first character: the greedy leftmost embedding is contiguous.
LeftmostContiguous(t, v) ==
    \E k \in 0..(Len(v) - Len(t)) :
        /\ SubSeq(Folded(v), k + 1, k + Len(t)) = Folded(t)
        /\ \A h \in 1..k : Folded(v)[h] # Folded(t)[1]

BagOfSeq(s) ==
    [x \in {s[k] : k \in DOMAIN s} |-> Cardinality({k \in DOMAIN s : s[k] = x})]

\* C7: after fuzzySort(query), two items whose scores against the query are
\* equal are in the same relative order as in the input.
C7_StableOrder ==
    spc = "done" =>
        \A p, q \in DOMAIN items :
            (/\ p < q
             /\ fuzzyScore(items[p].Title, query)
                  = fuzzyScore(items[q].Title, query))
                => items[p].ord < items[q].ord

C7_Witness ==
    /\ spc = "done"
    /\ VisibleItems(items) # input
    /\ \E p, q \in DOMAIN items :
          /\ p < q
          /\ items[p].Title = items[q].Title
          /\ items[p].UID # items[q].UID
          /\ items[p].ord > 1

\* C8: after fuzzySort(query) the list is a permutation of the input: same
\* length, and every item occurs as many times as in the input, the items
\* that do not match included.
C8_Permutation ==
    spc = "done" =>
        /\ Len(items) = Len(input)
        /\ BagOfSeq(VisibleItems(items)) = BagOfSeq(input)

C8_Witness ==
    /\ spc = "done"
    /\ VisibleItems(items) # input
    /\ \E p, q \in DOMAIN items : p # q /\ Visible(items[p]) = Visible(items[q])
    /\ \E p \in DOMAIN items : ~FuzzyMatches(items[p].Title, query)

\* C9: after fuzzySort(query) with a non-empty query, every item whose Title
\* does not match the query is after every item whose Title matches it.
C9_NoMatchLast ==
    (spc = "done" /\ query # <<>>) =>
        \A p, q \in DOMAIN items :
            (/\ ~FuzzyMatches(items[p].Title, query)
             /\ FuzzyMatches(items[q].Title, query))
                => q < p

C9_Witness ==
    /\ spc = "done"
    /\ query # <<>>
    /\ Len(items) >= 3
    /\ ~FuzzyMatches(input[1].Title, query)
    /\ FuzzyMatches(input[Len(input)].Title, query)
    /\ ~FuzzyMatches(items[Len(items)].Title, query)

\* C10: fuzzySort on a list of length 0 runs to its return, for any query,
\* without a panic, and the list is still empty.
C10_EmptyListSorts ==
    (spc = "scoring" /\ input = <<>>) ~> (spc = "done" /\ items = <<>>)

C10_Witness ==
    /\ spc = "done"
    /\ input = <<>>
    /\ items = <<>>
    /\ query # <<>>

(***************************************************************************)
(* The closed form of the score as the specification states it, computed   *)
(* from the characters of val and test and their byte offsets.             *)
(***************************************************************************)
RECURSIVE WidthSum(_, _)
WidthSum(rs, n) ==
    IF n = 0 THEN 0 ELSE WidthSum(rs, n - 1) + Len(EncodeRune(rs[n]))

\* The byte offset in s of each character of s, and of its end.
CharOffset(s, k) == WidthSum(RangeRunes(s), k - 1)
CharEnd(s, k) == WidthSum(RangeRunes(s), k)

IsEmbedding(f, t, v) ==
    /\ \A k \in 1..Len(t) : v[f[k]] = t[k]
    /\ \A k \in 1..(Len(t) - 1) : f[k] < f[k + 1]

\* The greedy leftmost embedding of the characters of t in those of v: every
\* character is matched at the first place after the previous match.
GreedyEmbedding(t, v) ==
    CHOOSE f \in [1..Len(t) -> 1..Len(v)] :
        /\ IsEmbedding(f, t, v)
        /\ \A g \in [1..Len(t) -> 1..Len(v)] :
               IsEmbedding(g, t, v) => \A k \in 1..Len(t) : f[k] <= g[k]

RECURSIVE GapSum(_, _, _)
GapSum(s, f, k) ==
    IF k <= 1 THEN 0
    ELSE GapSum(s, f, k - 1) + CharOffset(s, f[k]) - CharEnd(s, f[k - 1])

\* 0.20*(1 - (p+1)/len(val)) + 0.50*max(1 - totalSep/len(test), 0)
\*   + 0.20*(len(test)/len(val))
StatedScore(v, t) ==
    LET f        == GreedyEmbedding(Folded(t), Folded(v))
        p        == CharOffset(v, f[1])
        totalSep == GapSum(v, f, Len(Folded(t)))
    IN  Rat(2 * (Len(v) - (p + 1)) * Len(t)
              + 5 * Max(Len(t) - totalSep, 0) * Len(v)
              + 2 * Len(t) * Len(t),
            10 * Len(v) * Len(t))

\* C11: when val matches a non-empty test, fuzzyScore returns
\* 0.20*(1 - (p+1)/len(val)) + 0.50*max(1 - totalSep/len(test), 0)
\* + 0.20*(len(test)/len(val)), p the index of the first occurrence of
\* test's first character in val and totalSep the cumulative gap of the
\* greedy embedding.
C11_ScoreFormula ==
    (Called /\ test # <<>> /\ score # NoMatch /\ IsSubseqCI(test, val)) =>
        score = StatedScore(val, test)

One == Rat(1, 1)

\* C12: fuzzyScore returns exactly -1 or a value in the closed interval
\* [0, 1], never another negative value, and FuzzyMatches is true exactly
\* when the score is not -1.
C12_ScoreRange ==
    Called =>
        /\ \/ score = NoMatch
           \/ RatGeq(score, Zero) /\ RatGeq(One, score)
        /\ (pc = "matched" => (matches <=> score # NoMatch))

\* C13: fuzzyScore completes normally for every pair of strings: every
\* slice lval[start:] is taken with 0 <= start <= len(lval), no division has
\* a zero denominator, and an empty val with a non-empty test gives -1.
C13_CompletesNormally ==
    /\ pc # "panic"
    /\ score # NotANumber
    /\ (Called /\ val = <<>> /\ test # <<>>) => score = NoMatch

C13_Witness ==
    /\ pc = "matched"
    /\ val = <<>>
    /\ Len(test) = 2 * Len(EncodeRune(1984))
    /\ score = NoMatch
    /\ ~matches

\* One call is about to write an element, or its fuzzyScore field, that the
\* other call is about to read or write.
DataRace ==
    \E c, d \in Calls :
        /\ c # d
        /\ WritesOf(c) \cap (ReadsOf(d) \cup WritesOf(d)) # {}

BothDone == \A c \in Calls : calls[c].pc = "done"

\* C14: two calls of fuzzySort interleaved on the same slice never have one
\* call writing an element or its fuzzyScore while the other reads or writes
\* it, and when both have finished the slice is a permutation of the
\* original items.
C14_ConcurrentCallsSafe ==
    /\ ~DataRace
    /\ BothDone => BagOfSeq(VisibleItems(items)) = BagOfSeq(input)

\* A memoised score is the score of the item it is stored with.
ScoreTravelsWithItem ==
    \A k \in DOMAIN sortItems :
        sortItems[k].scored =>
            sortItems[k].score =
                FuzzyScore(items[sortItems[k].item].Title, query)

\* C15 as stated: during one call of FuzzySortItems FuzzyScore is computed
\* exactly once for every item of the input, for every list length; a score
\* is never recomputed and travels with its item through Swap.
C15_ScoredExactlyOnce ==
    /\ \A k \in DOMAIN scoreCalls : scoreCalls[k] <= 1
    /\ ScoreTravelsWithItem
    /\ spc = "done" => \A k \in DOMAIN items : scoreCalls[k] = 1

\* C15 amended: FuzzyScore is computed at most once for every item, and
\* exactly once for every item when the list has two items or more (a list
\* of one item is never compared, so its item is never scored); a score is
\* never recomputed and travels with its item through Swap.
C15_ScoredAtMostOnce ==
    /\ \A k \in DOMAIN scoreCalls : scoreCalls[k] <= 1
    /\ ScoreTravelsWithItem
    /\ (spc = "done" /\ Len(items) >= 2) =>
           \A k \in DOMAIN items : scoreCalls[k] = 1
    /\ (spc = "done" /\ Len(items) = 1) => scoreCalls[1] = 0
    /\ spc = "done" =>
           /\ Len(sorted) = Len(items)
           /\ {sorted[k] : k \in DOMAIN sorted} = DOMAIN items

C15_Witness ==
    /\ spc = "done"
    /\ Len(items) = MaxSortItems
    /\ \E k \in DOMAIN sorted : sorted[k] # k
    /\ \A k \in DOMAIN items : scoreCalls[k] = 1

\* The keyword menu items are in the order of the ranking: no item scores
\* better against the typed keyword than an item before it.
MenuRanked ==
    \A p, q \in DOMAIN tellItems :
        (p < q /\ tellItems[p].kind = "menu" /\ tellItems[q].kind = "menu") =>
            ~RatGreater(fuzzyScore(tellItems[q].Title, keyword),
                        fuzzyScore(tellItems[p].Title, keyword))

\* C16: in tell mode Workflow.Run ranks the keyword menu items by fuzzy
\* match quality whenever the typed keyword is not empty, and skips the
\* fuzzy sort only when it is empty.
C16_RanksWhenKeywordTyped ==
    (wpc = "sent" /\ dataKeyword = <<>>) =>
        /\ keyword # <<>> => MenuRanked
        /\ keyword = <<>> => ~ranked

\* The commands (by index) for which the items sent hold an item of a kind.
CommandsWith(kind) ==
    {tellItems[k].cmd :
        k \in {n \in DOMAIN tellItems : tellItems[n].kind = kind}}

C18_AtMostOnceADay ==
    \A p, q \in DOMAIN queries :
        (p < q /\ ~queries[q].now) => queries[q].at - queries[p].at >= 24

\* C19: in the 0.40/0.40/0.20 revision FuzzyMatches(val, test) is true
\* exactly when test is empty, or equals val ignoring case, or is a
\* case-insensitive ordered subsequence of val; an exact match always
\* matches and a test longer than val never matches.
C19_MatchesIffSubsequence_part000 ==
    pc = "matched_part000" =>
        /\ matches <=> \/ test = <<>>
                       \/ EqualFold(test, val)
                       \/ IsSubseqCI(test, val)
        /\ EqualFold(test, val) => matches
        /\ Len(test) > Len(val) => ~matches

\* C20: in the first revision a non-empty test that is longer than val, or
\* whose characters are not a case-insensitive ordered subsequence of val,
\* never matches: FuzzyScore is negative and FuzzyMatches is false.
C20_NonSubsequenceNoMatch_main ==
    (/\ pc = "matched_main"
     /\ test # <<>>
     /\ (Len(test) > Len(val) \/ ~IsSubseqCI(test, val))) =>
        /\ ~GeqZero(score)
        /\ ~matches

\* C21: SortItemsForKeyword of the first revision returns the items best
\* match first: for a non-empty keyword every item whose Title does not
\* match the keyword comes after every item whose Title matches it.
C21_NoMatchLast_main ==
    (spc = "done" /\ query # <<>>) =>
        \A p, q \in DOMAIN sorted :
            (/\ ~FuzzyMatches_main(items[sorted[p]].Title, query)
             /\ FuzzyMatches_main(items[sorted[q]].Title, query))
                => q < p

Titles(b) == [k \in 1..Len(b) |-> b[k].Title]

RECURSIVE PositionGaps(_, _)
PositionGaps(ps, k) ==
    IF k <= 1 THEN 0 ELSE PositionGaps(ps, k - 1) + (ps[k] - ps[k - 1] - 1)

\* The embedding f matches consecutive characters.
Contiguous(f) == \A k \in 1..(Len(f) - 1) : f[k + 1] = f[k] + 1

\* C23: on every successful match of a non-empty test the matched positions
\* are those of the leftmost greedy embedding of test's characters in val,
\* totalSep is the sum of the gaps p(k+1) - pk - 1, which is
\* (pm - p1) - (m - 1), and the compactness component
\* max(1 - totalSep/len(test), 0) is 1 exactly when the match is contiguous
\* and is never negative.
C23_GreedyEmbeddingGaps ==
    (Called /\ test # <<>> /\ score # NoMatch) =>
        /\ IsSubseqCI(test, val)
        /\ LET ps == MatchedPositions(val, test)
               m  == Len(ps)
               f  == GreedyEmbedding(Folded(test), Folded(val))
               totalSep == TotalSep(val, test)
               sepScore == Rat(Max(Len(test) - totalSep, 0), Len(test))
           IN  /\ m = Len(f)
               /\ \A k \in 1..m : ps[k] = CharOffset(ToLower(val), f[k])
               /\ totalSep = PositionGaps(ps, m)
               /\ totalSep = (ps[m] - ps[1]) - (m - 1)
               /\ sepScore = One <=> Contiguous(f)
               /\ RatGeq(sepScore, Zero)

\* C24: the weights fuzzyScore gives its three components (start position,
\* compactness, coverage) sum to 1.0: a match whose three components were
\* all 1 (start 0 of len(lval), totalSep 0, len(test) = len(val)) would
\* score exactly 1.0.
C24_WeightsSumToOne ==
    (Called /\ test # <<>> /\ score # NoMatch) =>
        Combine(0, Len(ToLower(val)), 0, Len(test), Len(test)) = One

\* C25: FuzzySortItems is side-effect-free on its input: it returns a new
\* sequence, and during and after the call the caller's slice has the same
\* length and the same elements in the same order as before, with no field
\* of an Item modified.
C25_InputUntouched ==
    /\ spc \in {"sorting", "done"} => items = input
    /\ spc = "done" =>
           /\ Len(sorted) = Len(input)
           /\ \A k \in DOMAIN sorted : sorted[k] \in DOMAIN input
           /\ \A p, q \in DOMAIN sorted : p # q => sorted[p] # sorted[q]

C25_Witness ==
    /\ spc = "done"
    /\ items = input
    /\ Len(input) >= 2
    /\ [k \in DOMAIN sorted |-> items[sorted[k]]] # input

\* C26: in the 0.40/0.40/0.20 revision every division that fuzzyScore
\* evaluates has a non-zero denominator, sizeDelta = len(val) - len(test)
\* included, so the score returned is never NaN or infinite.
C26_NoZeroDenominator_part000 ==
    pc = "matched_part000" => score.d # 0

\* C27: in tell mode of the first revision of Workflow.Run, if any call of
\* Filter.Items made during the invocation returned an error, the list sent
\* to Alfred contains an "Error: ..." item; the error of an earlier filter
\* is not lost when a later call of Items succeeds.
C27_ErrorReported_main ==
    (wpc = "sent" /\ \E k \in DOMAIN itemsCalls : itemsCalls[k].failed) =>
        \E n \in DOMAIN tellItems : tellItems[n].kind = "error"

\* "github.com" is one of the parts of the website between slashes.
HasGitHubPart(w) ==
    LET parts == Split(w, <<47>>)
    IN  \E k \in DOMAIN parts : parts[k] = GitHubHost

\* C28: when the website has no "github.com" path component (an empty
\* website included), updateAvailable detects it and makes no release
\* query, and parts[i+1] and parts[i+2] are never indexed out of range.
C28_NoGitHubNoQuery ==
    ~HasGitHubPart(website) =>
        /\ upc # "panic"
        /\ queries = <<>>

C30_BlankQueryKeepsOrder ==
    (spc = "done" /\ query = <<>>) =>
        /\ VisibleItems(items) = input
        /\ \A k \in DOMAIN items : items[k].fuzzyScore = Zero
        /\ \A k \in DOMAIN items : items[k].ord = k

C30_Witness ==
    /\ spc = "done"
    /\ query = <<>>
    /\ Len(items) = MaxItems
    /\ VisibleItems(items) = input
    /\ \E p, q \in DOMAIN items :
          /\ p < q
          /\ RatGreater(fuzzyScore(items[q].Title, <<97, 98>>),
                        fuzzyScore(items[p].Title, <<97, 98>>))
    /\ \E p, q \in DOMAIN items :
          /\ p < q
          /\ RatGreater(fuzzyScore(items[p].Title, <<97, 98>>),
                        fuzzyScore(items[q].Title, <<97, 98>>))

====
